---- MODULE Spec2Model ----
(***************************************************************************)
(* The multi-stage geographic entity resolution pipeline of                *)
(* advanced_geographic_classifier.py: the Place Graph                      *)
(* (HierarchicalGeographicGraph) and the classifier                        *)
(* (AdvancedGeographicClassifier.classify_text and its stages).            *)
(*                                                                         *)
(* Python strings are sequences of one-character strings, so that          *)
(* str.lower(), the `in` substring test, slicing and the regular           *)
(* expressions of the code are computed character by character.            *)
(* Confidences are integers in hundredths (0.8 is 80): every constant of   *)
(* the code is a multiple of 0.05 and the arithmetic is modelled exactly.  *)
(***************************************************************************)
EXTENDS Integers, Sequences, FiniteSets, TLC

VARIABLES
    geo_graph,      \* self.geo_graph: the HierarchicalGeographicGraph
    nlp,            \* self.nlp: "None", "English" (the blank pipeline) or "en_core_web_sm"
    semantic_model, \* self.semantic_model is not None
    ml_classifier,  \* self.ml_classifier is not None
    pc,             \* position of the running classify_text call
    text,           \* its argument text
    min_confidence, \* its argument min_confidence
    entities,       \* its local list of GeographicEntity
    stages,         \* the stages this call has run, in order
    result,         \* what the call returned: [places, confidence_scores]
    caps,           \* what the recognizer and the similarity capability answer for text
    prev,           \* when the call repeats the one before it: how that one ended
    added,          \* number of add_place calls made on a graph under construction
    resolution,     \* what the last _resolve_to_official_name call returned
    is_geographic,  \* what the last _is_geographic_entity call was given and returned
    other,          \* the locals of a second classify_text call, suspended between stages
    store,          \* stories.json: the list under its key 'stories'
    jobs            \* the merges in progress: what each has read and not yet saved

vars == <<geo_graph, nlp, semantic_model, ml_classifier, pc, text, min_confidence,
          entities, stages, result, caps, prev, added, resolution,
          is_geographic,
          other,
          store,
          jobs>>

\* None where the code expects a str or a list: no string of the model, whose
\* elements are single characters
None == <<"None">>

\* the state that a classify_text call and add_place neither read nor write
Aside == <<resolution, is_geographic, other, store, jobs>>

AsideInit ==
    /\ resolution = None
    /\ is_geographic = None
    /\ other = None
    /\ store = <<>>
    /\ jobs = None

-----------------------------------------------------------------------------
(* Python str operations *)

ToLower ==
    ("A" :> "a") @@ ("B" :> "b") @@ ("C" :> "c") @@ ("D" :> "d") @@ ("E" :> "e") @@
    ("F" :> "f") @@ ("G" :> "g") @@ ("H" :> "h") @@ ("I" :> "i") @@ ("J" :> "j") @@
    ("K" :> "k") @@ ("L" :> "l") @@ ("M" :> "m") @@ ("N" :> "n") @@ ("O" :> "o") @@
    ("P" :> "p") @@ ("Q" :> "q") @@ ("R" :> "r") @@ ("S" :> "s") @@ ("T" :> "t") @@
    ("U" :> "u") @@ ("V" :> "v") @@ ("W" :> "w") @@ ("X" :> "x") @@ ("Y" :> "y") @@
    ("Z" :> "z")

LowerChar(c) == IF c \in DOMAIN ToLower THEN ToLower[c] ELSE c

\* str.lower()
lower(s) == [i \in 1..Len(s) |-> LowerChar(s[i])]

\* s[start:end] with 0-based offsets, 0 <= start, end <= len(s)
Slice(s, start, end) ==
    IF end <= start THEN <<>> ELSE [i \in 1..(end - start) |-> s[start + i]]

\* needle occurs in hay at 0-based offset i
OccursAt(needle, hay, i) ==
    /\ i + Len(needle) <= Len(hay)
    /\ \A k \in 1..Len(needle) : hay[i + k] = needle[k]

\* needle in hay
Contains(needle, hay) == \E i \in 0..Len(hay) : OccursAt(needle, hay, i)

\* hay.find(needle): offset of the first occurrence, -1 if there is none
find(hay, needle) ==
    IF Contains(needle, hay)
    THEN CHOOSE i \in 0..Len(hay) :
            /\ OccursAt(needle, hay, i)
            /\ \A j \in 0..(i - 1) : ~OccursAt(needle, hay, j)
    ELSE -1

\* set(s)
CharSet(s) == {s[i] : i \in 1..Len(s)}

SeqToSet(s) == {s[i] : i \in 1..Len(s)}

-----------------------------------------------------------------------------
(* HierarchicalGeographicGraph: a networkx DiGraph with node attributes.   *)
(* nodes and edges keep insertion order, as the DiGraph's dicts do.        *)

\* HierarchicalGeographicGraph.__init__
EmptyGraph ==
    [nodes |-> <<>>, edges |-> <<>>, aliases |-> <<>>, type |-> <<>>,
     place_to_type |-> <<>>]

HasNode(g, n) == n \in SeqToSet(g.nodes)

\* DiGraph.add_node(place, type=.., aliases=..): a new node is appended, an
\* existing node keeps its place and has its attributes overwritten
add_node(g, place, place_type, aliases) ==
    [g EXCEPT !.nodes = IF HasNode(g, place) THEN @ ELSE Append(@, place),
              !.aliases = (place :> aliases) @@ @,
              !.type = (place :> place_type) @@ @]

\* DiGraph.add_edge(u, v): nodes that are missing are created without attributes
add_edge(g, u, v) ==
    LET withU == IF HasNode(g, u) THEN g.nodes ELSE Append(g.nodes, u)
        withV == IF v \in SeqToSet(withU) THEN withU ELSE Append(withU, v)
    IN [g EXCEPT !.nodes = withV,
                 !.edges = IF <<u, v>> \in SeqToSet(@) THEN @ ELSE Append(@, <<u, v>>)]

\* `if parent:` is false for None and for the empty string
Truthy(s) == s # None /\ s # <<>>

add_place(g, place, place_type, parent, aliases) ==
    LET g1 == add_node(g, place, place_type, IF aliases = None THEN <<>> ELSE aliases)
        g2 == [g1 EXCEPT !.place_to_type = (place :> place_type) @@ @]
    IN IF Truthy(parent) THEN add_edge(g2, parent, place) ELSE g2

\* graph.nodes[place].get('aliases', [])
NodeAliases(g, place) ==
    IF place \in DOMAIN g.aliases THEN g.aliases[place] ELSE <<>>

\* place_to_type.get(place, 'unknown')
PlaceType(g, place) ==
    IF place \in DOMAIN g.place_to_type THEN g.place_to_type[place] ELSE "unknown"

Predecessors(g, place) ==
    LET into == SelectSeq(g.edges, LAMBDA e : e[2] = place)
    IN [i \in 1..Len(into) |-> into[i][1]]

Successors(g, place) ==
    LET from == SelectSeq(g.edges, LAMBDA e : e[1] = place)
    IN [i \in 1..Len(from) |-> from[i][2]]

\* the outcome of a graph query: a list, or the NetworkXError that
\* DiGraph.predecessors / successors raise for a node that is not in the graph
Raised == [raised |-> TRUE]
Returned(v) == [raised |-> FALSE, value |-> v]

get_parents(g, place) ==
    IF HasNode(g, place) THEN Returned(Predecessors(g, place)) ELSE Raised

get_children(g, place) ==
    IF HasNode(g, place) THEN Returned(Successors(g, place)) ELSE Raised

\* networkx.ancestors: breadth-first search over the reversed edges from
\* place; the source itself is not part of the answer
RECURSIVE ReverseBFS(_, _, _)
ReverseBFS(g, visited, frontier) ==
    IF frontier = {} THEN visited
    ELSE LET reached == {e[1] : e \in {x \in SeqToSet(g.edges) : x[2] \in frontier}}
             fresh == reached \ visited
         IN ReverseBFS(g, visited \cup fresh, fresh)

\* get_all_ancestors as it would be with graph.predecessors in the place of
\* nx.ancestors: the direct parents only
DirectParentsOnly(g, place) ==
    IF HasNode(g, place) THEN SeqToSet(Predecessors(g, place)) ELSE {}

\* get_all_ancestors: nx.ancestors raises NetworkXError for a node that is
\* not in the graph, which is caught and leaves the list empty
get_all_ancestors(g, place) ==
    IF HasNode(g, place) THEN ReverseBFS(g, {place}, {place}) \ {place} ELSE {}

\* a resolver that answers with the context place found in the same hierarchy
ResolveToContext(g, place, context_places) ==
    IF ~HasNode(g, place) THEN place
    ELSE LET related == {i \in 1..Len(context_places) :
                            /\ HasNode(g, context_places[i])
                            /\ \/ place \in get_all_ancestors(g, context_places[i])
                               \/ place \in SeqToSet(Successors(g, context_places[i]))}
         IN IF related # {}
            THEN context_places[CHOOSE i \in related : \A j \in related : i <= j]
            ELSE place

\* resolve_ambiguous_reference: every path returns place
resolve_ambiguous_reference(g, place, context_places) ==
    IF ~HasNode(g, place) THEN place
    ELSE IF \E i \in 1..Len(context_places) :
               /\ HasNode(g, context_places[i])
               /\ \/ place \in get_all_ancestors(g, context_places[i])
                  \/ place \in SeqToSet(Successors(g, context_places[i]))
         THEN place
         ELSE place

-----------------------------------------------------------------------------
(* The literals of the classifier's rules *)

W_team == <<"t", "e", "a", "m">>
W_steelers == <<"s", "t", "e", "e", "l", "e", "r", "s">>
W_pirates == <<"p", "i", "r", "a", "t", "e", "s">>
W_penguins == <<"p", "e", "n", "g", "u", "i", "n", "s">>
W_university == <<"u", "n", "i", "v", "e", "r", "s", "i", "t", "y">>
W_of == <<"o", "f">>
W_company == <<"c", "o", "m", "p", "a", "n", "y">>
W_corporation == <<"c", "o", "r", "p", "o", "r", "a", "t", "i", "o", "n">>
W_inc == <<"i", "n", "c">>
W_llc == <<"l", "l", "c">>
W_school == <<"s", "c", "h", "o", "o", "l">>
W_high_school == <<"h", "i", "g", "h", " ", "s", "c", "h", "o", "o", "l">>
W_elementary == <<"e", "l", "e", "m", "e", "n", "t", "a", "r", "y">>
W_in == <<"i", "n">>
W_at == <<"a", "t">>
W_near == <<"n", "e", "a", "r">>
W_from == <<"f", "r", "o", "m">>
W_neighborhood == <<"n", "e", "i", "g", "h", "b", "o", "r", "h", "o", "o",
    "d">>
W_community == <<"c", "o", "m", "m", "u", "n", "i", "t", "y">>
W_area == <<"a", "r", "e", "a">>
W_residents == <<"r", "e", "s", "i", "d", "e", "n", "t", "s">>
W_officials == <<"o", "f", "f", "i", "c", "i", "a", "l", "s">>
W_government == <<"g", "o", "v", "e", "r", "n", "m", "e", "n", "t">>
W_council == <<"c", "o", "u", "n", "c", "i", "l">>

\* the characters \w and \s stand for in the code's regular expressions
WordChars ==
    DOMAIN ToLower \cup {ToLower[c] : c \in DOMAIN ToLower}
    \cup {"0", "1", "2", "3", "4", "5", "6", "7", "8", "9", "_"}

Whitespace == {" ", "\t", "\n"}

\* \b at 0-based offset i of s
Boundary(s, i) ==
    LET before == i >= 1 /\ s[i] \in WordChars
        after == i < Len(s) /\ s[i + 1] \in WordChars
    IN before # after

\* s[a:b] matches \s+
Spaces(s, a, b) ==
    a < b /\ b <= Len(s) /\ \A j \in (a + 1)..b : s[j] \in Whitespace

\* re.search(r'\b' + name + r'\s+(alt|alt|..)' [+ r'\b'], s)
NameThenWord(s, name, alts, trailing) ==
    \E i \in 0..Len(s) :
        /\ Boundary(s, i)
        /\ OccursAt(name, s, i)
        /\ \E b \in (i + Len(name) + 1)..Len(s) :
              /\ Spaces(s, i + Len(name), b)
              /\ \E w \in alts :
                    /\ OccursAt(w, s, b)
                    /\ trailing => Boundary(s, b + Len(w))

\* lead + r'\s+' + name matches s at offset i
LeadThenNameAt(s, i, lead, name) ==
    /\ OccursAt(lead, s, i)
    /\ \E b \in (i + Len(lead) + 1)..Len(s) :
          Spaces(s, i + Len(lead), b) /\ OccursAt(name, s, b)

\* re.search(r'\b' + lead + r'\s+' + name, s)
WordThenName(s, lead, name) ==
    \E i \in 0..Len(s) : Boundary(s, i) /\ LeadThenNameAt(s, i, lead, name)

\* re.search(r'university\s+of\s+' + name, s)
UniversityOf(s, name) ==
    \E i \in 0..Len(s) :
        /\ OccursAt(W_university, s, i)
        /\ \E b \in (i + Len(W_university) + 1)..Len(s) :
              /\ Spaces(s, i + Len(W_university), b)
              /\ LeadThenNameAt(s, b, W_of, name)

\* _is_geographic_entity. The first, third and fourth pattern are built from
\* text as given, the second from text.lower(); all are searched in
\* full_text.lower(). Every path after the non-geographic patterns returns True.
is_geographic_entity(surface, syntactic_role, full_text) ==
    LET doc == lower(full_text)
        non_geographic ==
            \/ NameThenWord(doc, surface, {W_team, W_steelers, W_pirates, W_penguins}, TRUE)
            \/ UniversityOf(doc, lower(surface))
            \/ NameThenWord(doc, surface, {W_company, W_corporation, W_inc, W_llc}, TRUE)
            \/ NameThenWord(doc, surface, {W_school, W_high_school, W_elementary}, TRUE)
        geographic ==
            \/ WordThenName(doc, W_in, lower(surface))
            \/ WordThenName(doc, W_near, lower(surface))
            \/ WordThenName(doc, W_from, lower(surface))
            \/ NameThenWord(doc, lower(surface),
                            {W_neighborhood, W_community, W_area, W_residents}, FALSE)
            \/ NameThenWord(doc, lower(surface),
                            {W_officials, W_government, W_council}, FALSE)
    IN IF non_geographic THEN FALSE
       ELSE IF geographic THEN TRUE
       ELSE IF /\ syntactic_role = "object"
               /\ \E prep \in {W_in, W_at, W_near, W_from} : Contains(prep, doc)
            THEN TRUE
            ELSE TRUE

\* _fuzzy_match with threshold 0.9: intersection / union >= 0.9
FuzzyThresholdTenths == 9

fuzzy_match(text1, text2) ==
    IF Len(text1) = 0 \/ Len(text2) = 0 THEN FALSE
    ELSE IF Contains(text1, text2) \/ Contains(text2, text1) THEN TRUE
    ELSE LET set1 == CharSet(text1)
             set2 == CharSet(text2)
         IN 10 * Cardinality(set1 \cap set2)
                >= FuzzyThresholdTenths * Cardinality(set1 \cup set2)

\* the first node, in the graph's iteration order, that satisfies Hit
FirstNode(g, Hit(_)) ==
    IF \E i \in 1..Len(g.nodes) : Hit(g.nodes[i])
    THEN g.nodes[CHOOSE i \in 1..Len(g.nodes) :
                    Hit(g.nodes[i]) /\ \A j \in 1..(i - 1) : ~Hit(g.nodes[j])]
    ELSE None

\* the resolver with the fuzzy match tried ahead of the alias match
ResolveFuzzyFirst(g, surface) ==
    LET text_lower == lower(surface)
        direct == FirstNode(g, LAMBDA place : lower(place) = text_lower)
        alias == FirstNode(g, LAMBDA place :
                     \E k \in 1..Len(NodeAliases(g, place)) :
                         lower(NodeAliases(g, place)[k]) = text_lower)
        fuzzy == FirstNode(g, LAMBDA place : fuzzy_match(text_lower, lower(place)))
    IN IF direct # None THEN direct
       ELSE IF fuzzy # None THEN fuzzy
       ELSE alias

\* _resolve_to_official_name: direct match, then alias match, then fuzzy match
resolve_to_official_name(g, surface) ==
    LET text_lower == lower(surface)
        direct == FirstNode(g, LAMBDA place : lower(place) = text_lower)
        alias == FirstNode(g, LAMBDA place :
                     \E k \in 1..Len(NodeAliases(g, place)) :
                         lower(NodeAliases(g, place)[k]) = text_lower)
        fuzzy == FirstNode(g, LAMBDA place : fuzzy_match(text_lower, lower(place)))
    IN IF direct # None THEN direct
       ELSE IF alias # None THEN alias
       ELSE fuzzy

\* _extract_context: window: int = 50
ContextWindow == 50

Min(a, b) == IF a <= b THEN a ELSE b
Max(a, b) == IF a >= b THEN a ELSE b

extract_context(full_text, start, end) ==
    Slice(full_text, Max(0, start - ContextWindow),
          Min(Len(full_text), end + ContextWindow))

\* _analyze_syntactic_role on the dependency label of the entity's root
analyze_syntactic_role(dep) ==
    IF dep \in {"nsubj", "nsubjpass"} THEN "subject"
    ELSE IF dep \in {"dobj", "pobj"} THEN "object"
    ELSE IF dep \in {"amod", "compound"} THEN "modifier"
    ELSE dep

-----------------------------------------------------------------------------
(* load_geographic_data: the seed is the content of the data file, its two *)
(* dicts as sequences of entries [name, aliases] in the file's order       *)

\* "Pennsylvania"
Pennsylvania == <<"P", "e", "n", "n", "s", "y", "l", "v", "a", "n", "i", "a">>
\* "Allegheny County"
AlleghenyCounty == <<"A", "l", "l", "e", "g", "h", "e", "n", "y", " ", "C",
    "o", "u", "n", "t", "y">>
\* "Pittsburgh"
Pittsburgh == <<"P", "i", "t", "t", "s", "b", "u", "r", "g", "h">>

RECURSIVE AddPlaces(_, _, _, _)
AddPlaces(g, entries, place_type, parent) ==
    IF entries = <<>> THEN g
    ELSE LET e == Head(entries)
         IN AddPlaces(add_place(g, e.name, place_type, parent, <<e.name>> \o e.aliases),
                      Tail(entries), place_type, parent)

load_geographic_data(seed) ==
    LET g1 == add_place(EmptyGraph, Pennsylvania, "state", None, None)
        g2 == add_place(g1, AlleghenyCounty, "county", Pennsylvania, None)
        g3 == add_place(g2, Pittsburgh, "city", AlleghenyCounty, None)
        g4 == AddPlaces(g3, seed.pittsburgh_neighborhoods, "neighborhood", Pittsburgh)
    IN AddPlaces(g4, seed.allegheny_county_municipalities, "municipality",
                 AlleghenyCounty)

-----------------------------------------------------------------------------
(* The stages of classify_text, as functions of the mention list *)

NerPrior == 80
BasicPrior == 60
SemanticBonus == 20
SemanticPenalty == 30
SemanticFloor == 10
BaseScore == 50
EarlyBonus == 10
ObjectBonus == 15
SubjectBonus == 10
ContextBonus == 20
ParentBonus == 10
GeographicBonus == 20
NonGeographicPenalty == 30
HierarchyBonus == 15
Full == 100

\* GeographicEntity(...)
GeographicEntity(surface, official_name, entity_type, confidence, position, context,
                 syntactic_role, semantic_context, parent_entities) ==
    [text |-> surface, official_name |-> official_name, entity_type |-> entity_type,
     confidence |-> confidence, position |-> position, context |-> context,
     syntactic_role |-> syntactic_role, semantic_context |-> semantic_context,
     parent_entities |-> parent_entities]

\* a scanner that compares the names with the text as written
RECURSIVE BasicScanSensitive(_, _, _)
BasicScanSensitive(g, full_text, i) ==
    IF i > Len(g.nodes) THEN <<>>
    ELSE LET place == g.nodes[i]
             position == find(full_text, place)
             rest == BasicScanSensitive(g, full_text, i + 1)
         IN IF Contains(place, full_text)
            THEN <<GeographicEntity(place, place, PlaceType(g, place), BasicPrior,
                                    position,
                                    extract_context(full_text, position,
                                                    position + Len(place)),
                                    "unknown", "unknown",
                                    get_parents(g, place).value)>> \o rest
            ELSE rest

\* _basic_entity_extraction: one mention per node whose lowered name is a
\* substring of the lowered text, in the graph's iteration order
RECURSIVE BasicScan(_, _, _)
BasicScan(g, full_text, i) ==
    IF i > Len(g.nodes) THEN <<>>
    ELSE LET place == g.nodes[i]
             text_lower == lower(full_text)
             position == find(text_lower, lower(place))
             rest == BasicScan(g, full_text, i + 1)
         IN IF Contains(lower(place), text_lower)
            THEN <<GeographicEntity(place, place, PlaceType(g, place), BasicPrior,
                                    position,
                                    extract_context(full_text, position,
                                                    position + Len(place)),
                                    "unknown", "unknown",
                                    get_parents(g, place).value)>> \o rest
            ELSE rest

basic_entity_extraction(g, full_text) == BasicScan(g, full_text, 1)

\* the body of the loop of extract_named_entities for one entity of the
\* recognizer, [start, end, label, dep]: the mention it yields, if any
NerMention(g, full_text, ent, surface, syntactic_role, official_name) ==
    IF /\ ent.label \in {"GPE", "LOC", "ORG"}
       /\ is_geographic_entity(surface, syntactic_role, full_text)
       /\ official_name # None
    THEN <<GeographicEntity(surface, official_name, PlaceType(g, official_name),
                            NerPrior, ent.start,
                            extract_context(full_text, ent.start, ent.end),
                            syntactic_role, "geographic",
                            get_parents(g, official_name).value)>>
    ELSE <<>>

\* the loop of extract_named_entities over doc.ents
RECURSIVE NerScan(_, _, _, _)
NerScan(g, full_text, ents, i) ==
    IF i > Len(ents) THEN <<>>
    ELSE LET surface == Slice(full_text, ents[i].start, ents[i].end)
         IN NerMention(g, full_text, ents[i], surface,
                       analyze_syntactic_role(ents[i].dep),
                       resolve_to_official_name(g, surface))
            \o NerScan(g, full_text, ents, i + 1)

\* extract_named_entities. recognizer is self.nlp; answer is what self.nlp(text)
\* does: it raises, or returns the document's entities. The blank English()
\* pipeline has no entity recognizer: its doc.ents is empty.
extract_named_entities(g, recognizer, answer, full_text) ==
    IF recognizer = "None" THEN Returned(basic_entity_extraction(g, full_text))
    ELSE IF answer.raises THEN Raised
    ELSE IF recognizer = "English" THEN Returned(<<>>)
    ELSE Returned(NerScan(g, full_text, answer.ents, 1))

\* what the loop of semantic_context_analysis does to one mention whose best
\* geographic and best non-geographic similarities are given, with `>=` in
\* the place of `>`
ValidateTieGeographic(ents, sim) ==
    [i \in 1..Len(ents) |->
        IF sim.failAt # 0 /\ i >= sim.failAt THEN ents[i]
        ELSE IF sim.scores[ents[i].text].max_geo_score
                    >= sim.scores[ents[i].text].max_non_geo_score
             THEN [ents[i] EXCEPT !.semantic_context = "geographic",
                                  !.confidence = Min(Full, @ + SemanticBonus)]
             ELSE [ents[i] EXCEPT !.semantic_context = "non_geographic",
                                  !.confidence = Max(SemanticFloor, @ - SemanticPenalty)]]

\* semantic_context_analysis with a semantic model. sim is what the
\* similarity capability answers: sim.scores gives, for a surface text, the
\* best similarity of the document to the geographic templates and to the
\* non-geographic templates filled with that text; sim.failAt is the mention
\* (0: none) at which encode or cosine_similarity raises. The exception ends
\* the loop; the mentions before it stay as updated.
semantic_context_analysis(ents, sim) ==
    [i \in 1..Len(ents) |->
        IF sim.failAt # 0 /\ i >= sim.failAt THEN ents[i]
        ELSE IF sim.scores[ents[i].text].max_geo_score
                    > sim.scores[ents[i].text].max_non_geo_score
             THEN [ents[i] EXCEPT !.semantic_context = "geographic",
                                  !.confidence = Min(Full, @ + SemanticBonus)]
             ELSE [ents[i] EXCEPT !.semantic_context = "non_geographic",
                                  !.confidence = Max(SemanticFloor, @ - SemanticPenalty)]]

\* a feature sum that starts from 0 instead of the base score
FeatureSumWithoutBase(entity, full_text) ==
    LET context_lower == lower(entity.context)
        early == IF 10 * entity.position < 3 * Len(full_text) THEN EarlyBonus ELSE 0
        role == IF entity.syntactic_role = "object" THEN ObjectBonus
                ELSE IF entity.syntactic_role = "subject" THEN SubjectBonus
                ELSE 0
        context == IF \E word \in {W_in, W_at, W_near, W_from, W_residents,
                                   W_community, W_neighborhood} :
                          Contains(word, context_lower)
                   THEN ContextBonus ELSE 0
        hierarchy == IF entity.parent_entities # <<>> THEN ParentBonus ELSE 0
    IN early + role + context + hierarchy

\* the features ml_confidence_scoring adds up for one mention
FeatureSum(entity, full_text) ==
    LET context_lower == lower(entity.context)
        early == IF 10 * entity.position < 3 * Len(full_text) THEN EarlyBonus ELSE 0
        role == IF entity.syntactic_role = "object" THEN ObjectBonus
                ELSE IF entity.syntactic_role = "subject" THEN SubjectBonus
                ELSE 0
        context == IF \E word \in {W_in, W_at, W_near, W_from, W_residents,
                                   W_community, W_neighborhood} :
                          Contains(word, context_lower)
                   THEN ContextBonus ELSE 0
        hierarchy == IF entity.parent_entities # <<>> THEN ParentBonus ELSE 0
        semantic == IF entity.semantic_context = "geographic" THEN GeographicBonus
                    ELSE IF entity.semantic_context = "non_geographic"
                         THEN 0 - NonGeographicPenalty
                    ELSE 0
    IN BaseScore + early + role + context + hierarchy + semantic

\* the score without `max(0.0, min(1.0, score))`
ScoreUnclamped(entity, full_text) == FeatureSum(entity, full_text)

\* entity.confidence = max(0.0, min(1.0, score))
Score(entity, full_text) == Max(0, Min(Full, FeatureSum(entity, full_text)))

\* ml_confidence_scoring with a classifier and a non-empty list:
\* _extract_ml_features divides by len(full_text), a ZeroDivisionError for
\* the empty text
ml_confidence_scoring(ents, full_text) ==
    IF Len(full_text) = 0 THEN Raised
    ELSE Returned([i \in 1..Len(ents) |->
                      [ents[i] EXCEPT !.confidence = Score(ents[i], full_text)]])

\* [e.official_name for e in entities if e != entity]: dataclass equality
\* compares the field values
OtherEntities(ents, entity) ==
    LET others == SelectSeq(ents, LAMBDA e : e # entity)
    IN [j \in 1..Len(others) |-> others[j].official_name]

\* hierarchical_resolution mutates the mentions in place, one after another
RECURSIVE ResolveFrom(_, _, _)
ResolveFrom(g, ents, i) ==
    IF i > Len(ents) THEN ents
    ELSE LET entity == ents[i]
             other_entities == OtherEntities(ents, entity)
             parent_found == \E k \in 1..Len(other_entities) :
                                other_entities[k] \in SeqToSet(entity.parent_entities)
             resolved ==
                 [entity EXCEPT
                     !.confidence = IF parent_found THEN Min(Full, @ + HierarchyBonus)
                                    ELSE @,
                     !.official_name =
                         resolve_ambiguous_reference(g, @, other_entities)]
         IN ResolveFrom(g, [ents EXCEPT ![i] = resolved], i + 1)

hierarchical_resolution(g, ents) == ResolveFrom(g, ents, 1)

\* the filter with `>` in the place of `>=`
RECURSIVE FilterSeenStrict(_, _, _, _)
FilterSeenStrict(ents, minimum, seen_places, i) ==
    IF i > Len(ents) THEN <<>>
    ELSE IF ents[i].confidence > minimum /\ ents[i].official_name \notin seen_places
         THEN <<ents[i]>> \o FilterSeenStrict(ents, minimum,
                                              seen_places \cup {ents[i].official_name},
                                              i + 1)
         ELSE FilterSeenStrict(ents, minimum, seen_places, i + 1)

\* the filter without the test of seen_places
RECURSIVE FilterUnseen(_, _, _, _)
FilterUnseen(ents, minimum, seen_places, i) ==
    IF i > Len(ents) THEN <<>>
    ELSE IF ents[i].confidence >= minimum
         THEN <<ents[i]>> \o FilterUnseen(ents, minimum, seen_places, i + 1)
         ELSE FilterUnseen(ents, minimum, seen_places, i + 1)

\* the loop of classify_text that filters by min_confidence and drops a
\* mention whose official_name was seen before
RECURSIVE FilterSeen(_, _, _, _)
FilterSeen(ents, minimum, seen_places, i) ==
    IF i > Len(ents) THEN <<>>
    ELSE IF ents[i].confidence >= minimum /\ ents[i].official_name \notin seen_places
         THEN <<ents[i]>> \o FilterSeen(ents, minimum,
                                        seen_places \cup {ents[i].official_name}, i + 1)
         ELSE FilterSeen(ents, minimum, seen_places, i + 1)

\* the insertion of an unstable sort: ahead of the elements that are equal
InsertBeforeEqual(sorted, entity) ==
    LET ahead == {k \in 1..Len(sorted) : sorted[k].confidence > entity.confidence}
        n == Cardinality(ahead)
    IN SubSeq(sorted, 1, n) \o <<entity>> \o SubSeq(sorted, n + 1, Len(sorted))

\* the place of a new element in a list sorted by descending confidence:
\* behind every element that is not smaller (list.sort is stable, also with
\* reverse=True)
InsertDescending(sorted, entity) ==
    LET ahead == {k \in 1..Len(sorted) : sorted[k].confidence >= entity.confidence}
        n == Cardinality(ahead)
    IN SubSeq(sorted, 1, n) \o <<entity>> \o SubSeq(sorted, n + 1, Len(sorted))

\* high_confidence_entities.sort(key=lambda x: x.confidence, reverse=True)
RECURSIVE SortDescending(_)
SortDescending(ents) ==
    IF ents = <<>> THEN <<>>
    ELSE InsertDescending(SortDescending(SubSeq(ents, 1, Len(ents) - 1)),
                          ents[Len(ents)])

\* the tail of classify_text: filter, sort, extract the results
FilterSortExtract(ents, minimum) ==
    LET high_confidence_entities == SortDescending(FilterSeen(ents, minimum, {}, 1))
        n == Len(high_confidence_entities)
    IN [places |-> [k \in 1..n |-> high_confidence_entities[k].official_name],
        confidence_scores |->
            [name \in {high_confidence_entities[k].official_name : k \in 1..n} |->
                LET last == CHOOSE k \in 1..n :
                        /\ high_confidence_entities[k].official_name = name
                        /\ \A j \in (k + 1)..n :
                              high_confidence_entities[j].official_name # name
                IN high_confidence_entities[last].confidence]]

EmptyResult == [places |-> <<>>, confidence_scores |-> <<>>]

-----------------------------------------------------------------------------
(* The inputs: seeds of the data file, documents, and what the recognizer  *)
(* and the similarity capability may answer                                *)

\* "Oakland"
Oakland == <<"O", "a", "k", "l", "a", "n", "d">>
\* "Oakland Raiders"
OaklandRaiders == <<"O", "a", "k", "l", "a", "n", "d", " ", "R", "a", "i",
    "d", "e", "r", "s">>
\* "Moon"
Moon == <<"M", "o", "o", "n">>
\* "Moon Township"
MoonTownship == <<"M", "o", "o", "n", " ", "T", "o", "w", "n", "s", "h", "i",
    "p">>
\* "University of Pittsburgh"
UniversityOfPittsburgh == <<"U", "n", "i", "v", "e", "r", "s", "i", "t", "y",
    " ", "o", "f", " ", "P", "i", "t", "t", "s", "b", "u", "r", "g", "h">>
\* "Nothing"
Nothing == <<"N", "o", "t", "h", "i", "n", "g">>
\* "Oakland Raiders fans met in Oakland"
TextRaiders == <<"O", "a", "k", "l", "a", "n", "d", " ", "R", "a", "i", "d",
    "e", "r", "s", " ", "f", "a", "n", "s", " ", "m", "e", "t", " ", "i",
    "n", " ", "O", "a", "k", "l", "a", "n", "d">>
\* "Moon Township and Oakland officials near Pittsburgh"
TextMoon == <<"M", "o", "o", "n", " ", "T", "o", "w", "n", "s", "h", "i",
    "p", " ", "a", "n", "d", " ", "O", "a", "k", "l", "a", "n", "d", " ",
    "o", "f", "f", "i", "c", "i", "a", "l", "s", " ", "n", "e", "a", "r",
    " ", "P", "i", "t", "t", "s", "b", "u", "r", "g", "h">>
\* "University of Pittsburgh students in Oakland"
TextUniversity == <<"U", "n", "i", "v", "e", "r", "s", "i", "t", "y", " ",
    "o", "f", " ", "P", "i", "t", "t", "s", "b", "u", "r", "g", "h", " ",
    "s", "t", "u", "d", "e", "n", "t", "s", " ", "i", "n", " ", "O", "a",
    "k", "l", "a", "n", "d">>
\* "Nothing happened"
TextNoPlace == <<"N", "o", "t", "h", "i", "n", "g", " ", "h", "a", "p", "p",
    "e", "n", "e", "d">>

\* "Knoxville"
Knoxville == <<"K", "n", "o", "x", "v", "i", "l", "l", "e">>
\* "Pittsburgh Steelers"
PittsburghSteelers == <<"P", "i", "t", "t", "s", "b", "u", "r", "g", "h",
    " ", "S", "t", "e", "e", "l", "e", "r", "s">>
\* "University of Tennessee"
UniversityOfTennessee == <<"U", "n", "i", "v", "e", "r", "s", "i", "t", "y",
    " ", "o", "f", " ", "T", "e", "n", "n", "e", "s", "s", "e", "e">>
\* "University of Tennessee Knoxville"
TextTennessee == <<"U", "n", "i", "v", "e", "r", "s", "i", "t", "y", " ",
    "o", "f", " ", "T", "e", "n", "n", "e", "s", "s", "e", "e", " ", "K",
    "n", "o", "x", "v", "i", "l", "l", "e">>
\* "Knoxville residents met with Pittsburgh officials"
TextResidents == <<"K", "n", "o", "x", "v", "i", "l", "l", "e", " ", "r",
    "e", "s", "i", "d", "e", "n", "t", "s", " ", "m", "e", "t", " ", "w",
    "i", "t", "h", " ", "P", "i", "t", "t", "s", "b", "u", "r", "g", "h",
    " ", "o", "f", "f", "i", "c", "i", "a", "l", "s">>
\* "Pittsburgh Steelers played against Oakland Raiders at Heinz Field"
TextSteelers == <<"P", "i", "t", "t", "s", "b", "u", "r", "g", "h", " ", "S",
    "t", "e", "e", "l", "e", "r", "s", " ", "p", "l", "a", "y", "e", "d",
    " ", "a", "g", "a", "i", "n", "s", "t", " ", "O", "a", "k", "l", "a",
    "n", "d", " ", "R", "a", "i", "d", "e", "r", "s", " ", "a", "t", " ",
    "H", "e", "i", "n", "z", " ", "F", "i", "e", "l", "d">>
\* "University of Pittsburgh students in Oakland neighborhood gathered"
TextGathered == <<"U", "n", "i", "v", "e", "r", "s", "i", "t", "y", " ", "o",
    "f", " ", "P", "i", "t", "t", "s", "b", "u", "r", "g", "h", " ", "s",
    "t", "u", "d", "e", "n", "t", "s", " ", "i", "n", " ", "O", "a", "k",
    "l", "a", "n", "d", " ", "n", "e", "i", "g", "h", "b", "o", "r", "h",
    "o", "o", "d", " ", "g", "a", "t", "h", "e", "r", "e", "d">>

\* "Oakland residents in Allegheny County"
TextCounty == <<"O", "a", "k", "l", "a", "n", "d", " ", "r", "e", "s", "i",
    "d", "e", "n", "t", "s", " ", "i", "n", " ", "A", "l", "l", "e", "g",
    "h", "e", "n", "y", " ", "C", "o", "u", "n", "t", "y">>

\* the data file is missing: load_geographic_data falls back to two empty dicts
SeedBasic ==
    [pittsburgh_neighborhoods |-> <<>>, allegheny_county_municipalities |-> <<>>]

SeedRegion ==
    [pittsburgh_neighborhoods |-> <<[name |-> Oakland, aliases |-> <<>>]>>,
     allegheny_county_municipalities |->
         <<[name |-> Moon, aliases |-> <<Moon, MoonTownship>>]>>]

Seeds == {SeedBasic, SeedRegion}

Texts == {<<>>, TextRaiders, TextMoon, TextUniversity, TextNoPlace}

\* min_confidence: the default 0.4 and a stricter cutoff
MinConfidences == {40, 75}

\* the spans a recognizer may report: the occurrences of these surface forms
Surfaces ==
    {Oakland, OaklandRaiders, Pittsburgh, MoonTownship, UniversityOfPittsburgh, Nothing,
     Knoxville, PittsburghSteelers, UniversityOfTennessee}

Spans(full_text) ==
    {[start |-> o[2], end |-> o[2] + Len(o[1])] :
        o \in {x \in Surfaces \X (0..Len(full_text)) : OccursAt(x[1], full_text, x[2])}}

\* doc.ents never overlap
Disjoint(spans) ==
    \A a, b \in spans : a = b \/ a.end <= b.start \/ b.end <= a.start

\* the entity label and the dependency label of an entity's root
Tags ==
    {[label |-> "GPE", dep |-> "nsubj"], [label |-> "LOC", dep |-> "pobj"],
     [label |-> "ORG", dep |-> "ROOT"], [label |-> "PERSON", dep |-> "compound"]}

\* the most entities a recognizer reports for one document
MaxEnts == 2

\* doc.ents is in document order
RECURSIVE InOrder(_, _)
InOrder(spans, tag) ==
    IF spans = {} THEN <<>>
    ELSE LET first == CHOOSE a \in spans : \A b \in spans : a.start <= b.start
         IN <<[start |-> first.start, end |-> first.end,
               label |-> tag[first].label, dep |-> tag[first].dep]>>
            \o InOrder(spans \ {first}, tag)

NerAnswers(full_text) ==
    {[raises |-> TRUE, ents |-> <<>>]} \cup
    UNION {{[raises |-> FALSE, ents |-> InOrder(spans, tag)] : tag \in [spans -> Tags]} :
             spans \in {x \in SUBSET Spans(full_text) :
                           Disjoint(x) /\ Cardinality(x) <= MaxEnts}}

\* the values a maximum of cosine similarities takes
SimLevels == {1, 2}

\* the capability is asked about the mentions in turn, up to the one at
\* which it raises
SimAnswers(ents) ==
    UNION {[scores : [{ents[i].text : i \in 1..(IF at = 0 THEN Len(ents) ELSE at - 1)} ->
                        [max_geo_score : SimLevels, max_non_geo_score : SimLevels]],
            failAt : {at}] : at \in 0..Len(ents)}

NoCaps ==
    [ner |-> [raises |-> FALSE, ents |-> <<>>], sim |-> [scores |-> <<>>, failAt |-> 0]]

NoPrev == [set |-> FALSE, pc |-> "idle", result |-> EmptyResult]

-----------------------------------------------------------------------------
(* The classifier: construction, then classify_text calls stage by stage   *)

\* __init__: load_geographic_data, then _initialize_components, which leaves
\* self.nlp None (spaCy missing), the blank English() (language model
\* missing) or the loaded model, and sets semantic_model and ml_classifier
\* when their libraries import and load
Init ==
    /\ geo_graph \in {load_geographic_data(seed) : seed \in Seeds}
    /\ nlp \in {"None", "English", "en_core_web_sm"}
    /\ semantic_model \in BOOLEAN
    /\ ml_classifier \in BOOLEAN
    /\ pc = "idle"
    /\ text = <<>>
    /\ min_confidence = 40
    /\ entities = <<>>
    /\ stages = <<>>
    /\ result = EmptyResult
    /\ caps = NoCaps
    /\ prev = NoPrev
    /\ added = 0
    /\ AsideInit

Classifier == <<geo_graph, nlp, semantic_model, ml_classifier>>

Over == pc \in {"idle", "returned", "raised"}

\* classify_text(t, minimum) is called
Call(t, minimum) ==
    /\ pc = "idle"
    /\ pc' = "extract"
    /\ text' = t
    /\ min_confidence' = minimum
    /\ entities' = <<>>
    /\ stages' = <<>>
    /\ result' = EmptyResult
    /\ caps' = NoCaps
    /\ prev' = NoPrev
    /\ UNCHANGED <<Classifier, added, Aside>>

\* classify_text is called again with the arguments of the call that just
\* ended; the capabilities answer the same text as they did
Repeat ==
    /\ pc \in {"returned", "raised"}
    /\ pc' = "extract"
    /\ prev' = IF prev.set THEN prev ELSE [set |-> TRUE, pc |-> pc, result |-> result]
    /\ entities' = <<>>
    /\ stages' = <<>>
    /\ result' = EmptyResult
    /\ UNCHANGED <<Classifier, added, Aside, text, min_confidence, caps>>

\* the caller is done with what the call returned or raised, and the frame
\* of the call is gone
Forget ==
    /\ pc \in {"returned", "raised"}
    /\ pc' = "idle"
    /\ text' = <<>>
    /\ min_confidence' = 40
    /\ entities' = <<>>
    /\ stages' = <<>>
    /\ result' = EmptyResult
    /\ caps' = NoCaps
    /\ prev' = NoPrev
    /\ UNCHANGED <<Classifier, added, Aside>>

\* Layer 1 without `if not entities: return [], {}`
ExtractWithoutReturn ==
    /\ pc = "extract"
    /\ \E answer \in IF nlp = "None" THEN {NoCaps.ner}
                     ELSE IF prev.set THEN {caps.ner}
                     ELSE NerAnswers(text) :
          \E found \in {extract_named_entities(geo_graph, nlp, answer, text)} :
             /\ caps' = [caps EXCEPT !.ner = answer]
             /\ IF found.raised
                THEN /\ pc' = "raised"
                     /\ UNCHANGED <<entities, stages, result>>
                ELSE /\ entities' = found.value
                     /\ stages' = Append(stages, "extract")
                     /\ pc' = "semantic"
                     /\ UNCHANGED result
    /\ UNCHANGED <<Classifier, added, Aside, text, min_confidence, prev>>

\* the surface forms of the mentions, registered as aliases of their places
RECURSIVE Remember(_, _, _)
Remember(g, ents, i) ==
    IF i > Len(ents) THEN g
    ELSE Remember([g EXCEPT !.aliases[ents[i].official_name] =
                                IF ents[i].text \in SeqToSet(@) THEN @
                                ELSE Append(@, ents[i].text)],
                  ents, i + 1)

\* Layer 1 with a resolver that caches what it resolved in the graph
ExtractRemembering ==
    /\ pc = "extract"
    /\ \E answer \in IF nlp = "None" THEN {NoCaps.ner}
                     ELSE IF prev.set THEN {caps.ner}
                     ELSE NerAnswers(text) :
          \E found \in {extract_named_entities(geo_graph, nlp, answer, text)} :
             /\ caps' = [caps EXCEPT !.ner = answer]
             /\ IF found.raised
                THEN /\ pc' = "raised"
                     /\ UNCHANGED <<geo_graph, entities, stages, result>>
                ELSE /\ entities' = found.value
                     /\ geo_graph' = Remember(geo_graph, found.value, 1)
                     /\ stages' = Append(stages, "extract")
                     /\ IF found.value = <<>>
                        THEN pc' = "returned" /\ result' = EmptyResult
                        ELSE pc' = "semantic" /\ UNCHANGED result
    /\ UNCHANGED <<nlp, semantic_model, ml_classifier, added, Aside, text, min_confidence,
                   prev>>

\* Layer 1: extract_named_entities, and the return of ([], {}) when it finds nothing
Extract ==
    /\ pc = "extract"
    /\ \E answer \in IF nlp = "None" THEN {NoCaps.ner}
                     ELSE IF prev.set THEN {caps.ner}
                     ELSE NerAnswers(text) :
          \E found \in {extract_named_entities(geo_graph, nlp, answer, text)} :
             /\ caps' = [caps EXCEPT !.ner = answer]
             /\ IF found.raised
                THEN /\ pc' = "raised"
                     /\ UNCHANGED <<entities, stages, result>>
                ELSE /\ entities' = found.value
                     /\ stages' = Append(stages, "extract")
                     /\ IF found.value = <<>>
                        THEN pc' = "returned" /\ result' = EmptyResult
                        ELSE pc' = "semantic" /\ UNCHANGED result
    /\ UNCHANGED <<Classifier, added, Aside, text, min_confidence, prev>>

\* Layer 2: semantic_context_analysis
Semantic ==
    /\ pc = "semantic"
    /\ \E sim \in IF ~semantic_model THEN {NoCaps.sim}
                  ELSE IF prev.set THEN {caps.sim}
                  ELSE SimAnswers(entities) :
          /\ caps' = [caps EXCEPT !.sim = sim]
          /\ entities' = IF semantic_model THEN semantic_context_analysis(entities, sim)
                         ELSE entities
    /\ stages' = Append(stages, "semantic")
    /\ pc' = "score"
    /\ UNCHANGED <<Classifier, added, Aside, text, min_confidence, result, prev>>

\* Layer 4 run in the place of Layer 3
ResolveBeforeScoring ==
    /\ pc = "score"
    /\ entities' = hierarchical_resolution(geo_graph, entities)
    /\ stages' = Append(stages, "resolve")
    /\ pc' = "resolve"
    /\ UNCHANGED <<Classifier, added, Aside, text, min_confidence, result, caps, prev>>

\* Layer 3: ml_confidence_scoring
Scoring ==
    /\ pc = "score"
    /\ \E scored \in {IF ml_classifier THEN ml_confidence_scoring(entities, text)
                      ELSE Returned(entities)} :
          IF scored.raised
          THEN pc' = "raised" /\ UNCHANGED <<entities, stages>>
          ELSE /\ entities' = scored.value
               /\ stages' = Append(stages, "score")
               /\ pc' = "resolve"
    /\ UNCHANGED <<Classifier, added, Aside, text, min_confidence, result, caps, prev>>

\* Layer 4: hierarchical_resolution
Hierarchical ==
    /\ pc = "resolve"
    /\ entities' = hierarchical_resolution(geo_graph, entities)
    /\ stages' = Append(stages, "resolve")
    /\ pc' = "filter"
    /\ UNCHANGED <<Classifier, added, Aside, text, min_confidence, result, caps, prev>>

\* the filter, the sort and the return of classify_text
FilterSortReturn ==
    /\ pc = "filter"
    /\ result' = FilterSortExtract(entities, min_confidence)
    /\ stages' = Append(stages, "filter")
    /\ pc' = "returned"
    /\ UNCHANGED <<Classifier, added, Aside, text, min_confidence, entities, caps, prev>>

Next ==
    \/ \E t \in Texts, minimum \in MinConfidences : Call(t, minimum)
    \/ Repeat
    \/ Forget
    \/ Extract
    \/ Semantic
    \/ Scoring
    \/ Hierarchical
    \/ FilterSortReturn

Spec == Init /\ [][Next]_vars

-----------------------------------------------------------------------------
(* The Place Graph under construction: add_place calls on a new graph, or  *)
(* on the graph load_geographic_data has built from its three fixed roots  *)

\* the most add_place calls made on one graph
MaxPlaces == 2

PlacePool == {Pittsburgh, Oakland, Moon}

ParentPool == {None, Pittsburgh, Oakland, Moon}

AliasPool == {None, <<Oakland>>, <<MoonTownship>>}

TypePool == {"neighborhood", "municipality"}

InitGraph ==
    /\ geo_graph \in {EmptyGraph, load_geographic_data(SeedBasic)}
    /\ nlp = "None"
    /\ semantic_model = FALSE
    /\ ml_classifier = FALSE
    /\ pc = "idle"
    /\ text = <<>>
    /\ min_confidence = 40
    /\ entities = <<>>
    /\ stages = <<>>
    /\ result = EmptyResult
    /\ caps = NoCaps
    /\ prev = NoPrev
    /\ added = 0
    /\ AsideInit

\* geo_graph.add_place(place, place_type, parent, aliases)
AddPlace(place, place_type, parent, aliases) ==
    /\ added < MaxPlaces
    /\ geo_graph' = add_place(geo_graph, place, place_type, parent, aliases)
    /\ added' = added + 1
    /\ UNCHANGED <<nlp, semantic_model, ml_classifier, pc, text, min_confidence,
                   entities, stages, result, caps, prev, Aside>>

NextGraph ==
    \E place \in PlacePool, place_type \in TypePool, parent \in ParentPool,
       aliases \in AliasPool :
        AddPlace(place, place_type, parent, aliases)

SpecGraph == InitGraph /\ [][NextGraph]_vars

-----------------------------------------------------------------------------
(* Properties of the Place Graph and of the Name Resolver *)

ToUpperChar(c) ==
    IF \E u \in DOMAIN ToLower : ToLower[u] = c
    THEN CHOOSE u \in DOMAIN ToLower : ToLower[u] = c
    ELSE c

upper(s) == [i \in 1..Len(s) |-> ToUpperChar(s[i])]

Nodes == SeqToSet(geo_graph.nodes)

\* C6: every alias registered for a place resolves, in any letter case, to
\* that place.
C6_AliasRoundTrip ==
    \A place \in Nodes :
        \A k \in 1..Len(NodeAliases(geo_graph, place)) :
            LET alias == NodeAliases(geo_graph, place)[k]
            IN /\ resolve_to_official_name(geo_graph, alias) = place
               /\ resolve_to_official_name(geo_graph, lower(alias)) = place
               /\ resolve_to_official_name(geo_graph, upper(alias)) = place

\* the places reached from place by at most n applications of parentsOf
RECURSIVE ParentsRepeatedly(_, _)
ParentsRepeatedly(place, n) ==
    IF n = 0 THEN {}
    ELSE LET nearer == ParentsRepeatedly(place, n - 1)
         IN nearer \cup UNION {SeqToSet(Predecessors(geo_graph, p)) :
                                  p \in nearer \cup {place}}

\* C7: ancestorsOf(P) is the set reached by applying parentsOf repeatedly, P
\* itself excluded; for the chain State->County->City->Neighborhood it is
\* {City, County, State}; for a name that is not in the graph it is empty.
C7_AncestorsClosure ==
    /\ \A place \in Nodes :
          get_all_ancestors(geo_graph, place)
              = ParentsRepeatedly(place, Len(geo_graph.nodes)) \ {place}
    /\ \A place \in (PlacePool \cup {Pennsylvania}) \ Nodes :
          get_all_ancestors(geo_graph, place) = {}
    /\ geo_graph.edges = <<<<Pennsylvania, AlleghenyCounty>>,
                           <<AlleghenyCounty, Pittsburgh>>, <<Pittsburgh, Oakland>>>>
          => get_all_ancestors(geo_graph, Oakland)
                 = {Pittsburgh, AlleghenyCounty, Pennsylvania}

C7_Witness ==
    /\ geo_graph.edges = <<<<Pennsylvania, AlleghenyCounty>>,
                           <<AlleghenyCounty, Pittsburgh>>, <<Pittsburgh, Oakland>>>>
    /\ get_all_ancestors(geo_graph, Oakland) = {Pittsburgh, AlleghenyCounty, Pennsylvania}
    /\ Moon \notin Nodes
    /\ get_all_ancestors(geo_graph, Moon) = {}

-----------------------------------------------------------------------------
(* Properties of classify_text *)

\* the call ran all its stages and returned from the last line
Sorted == pc = "returned" /\ Len(stages) = 5

Places == SeqToSet(result.places)

MentionsOf(name) == {i \in 1..Len(entities) : entities[i].official_name = name}

\* the mention a returned name stands for: the first one, in extraction
\* order, that passes the cutoff
Kept(name) ==
    CHOOSE i \in MentionsOf(name) :
        /\ entities[i].confidence >= min_confidence
        /\ \A j \in MentionsOf(name) :
              entities[j].confidence >= min_confidence => i <= j

\* C1: no returned name has a confidence strictly below min_confidence, in the
\* list or in the score map, and a mention whose final confidence equals
\* min_confidence is kept.
C1_MinConfidenceFilter ==
    Sorted =>
        /\ \A name \in Places \cup DOMAIN result.confidence_scores :
              result.confidence_scores[name] >= min_confidence
        /\ \A i \in 1..Len(entities) :
              entities[i].confidence = min_confidence
                  => entities[i].official_name \in Places

C1_Witness ==
    /\ Sorted
    /\ \E i, j \in 1..Len(entities) :
          /\ entities[i].confidence = min_confidence
          /\ entities[i].official_name \in Places
          /\ entities[j].confidence < min_confidence
          /\ entities[j].official_name \notin Places

\* C2: the confidence reported for a name is the highest final confidence
\* among the mentions that resolve to that name.
C2_DedupKeepsHighest ==
    Sorted =>
        \A name \in Places :
            \A i \in MentionsOf(name) :
                result.confidence_scores[name] >= entities[i].confidence

\* C3: the list of places holds no name twice, and the keys of the score map
\* are exactly the names of the list.
C3_UniqueNames ==
    pc = "returned" =>
        /\ \A k, l \in 1..Len(result.places) :
              result.places[k] = result.places[l] => k = l
        /\ DOMAIN result.confidence_scores = Places

C3_Witness ==
    /\ Sorted
    /\ \E i, j \in 1..Len(entities) :
          /\ i # j
          /\ entities[i].official_name = entities[j].official_name
          /\ entities[i].confidence >= min_confidence
          /\ entities[j].confidence >= min_confidence
          /\ entities[i].confidence # entities[j].confidence

\* C4: the places are in order of non-increasing confidence, and names of
\* equal confidence are in the order in which their mentions were extracted.
C4_DescendingStable ==
    Sorted =>
        \A k, l \in 1..Len(result.places) :
            k < l =>
                LET a == result.places[k]
                    b == result.places[l]
                IN /\ result.confidence_scores[a] >= result.confidence_scores[b]
                   /\ result.confidence_scores[a] = result.confidence_scores[b]
                          => Kept(a) < Kept(b)

C4_Witness ==
    /\ Sorted
    /\ \E k, l, m \in 1..Len(result.places) :
          /\ k < l
          /\ result.confidence_scores[result.places[k]]
                = result.confidence_scores[result.places[l]]
          /\ result.confidence_scores[result.places[m]]
                > result.confidence_scores[result.places[k]]
          /\ Kept(result.places[m]) > Kept(result.places[k])

\* C5: the confidence of every mention is within [0, 1] after every stage,
\* and so is every value of the returned score map.
C5_ConfidenceRange ==
    /\ \A i \in 1..Len(entities) :
          entities[i].confidence >= 0 /\ entities[i].confidence <= Full
    /\ \A name \in DOMAIN result.confidence_scores :
          /\ result.confidence_scores[name] >= 0
          /\ result.confidence_scores[name] <= Full

C5_Witness ==
    /\ Sorted
    /\ semantic_model
    /\ ml_classifier
    /\ \E i, j \in 1..Len(entities) :
          /\ entities[i].confidence = Full
          /\ entities[i].semantic_context = "geographic"
          /\ entities[j].semantic_context = "non_geographic"
          /\ entities[j].confidence < entities[i].confidence

\* C8: when extraction yields no mention the call returns ([], {}) at once:
\* no stage after extraction has run.
C8_EmptyShortCircuit ==
    (stages # <<>> /\ entities = <<>>) =>
        /\ pc = "returned"
        /\ result = EmptyResult
        /\ stages = <<"extract">>

C8_Witness ==
    /\ pc = "returned"
    /\ entities = <<>>
    /\ text # <<>>
    /\ nlp = "en_core_web_sm"
    /\ caps.ner.ents # <<>>
    /\ stages = <<"extract">>

\* C9: classify_text never ends by raising.
C9_NeverRaises == pc # "raised"

\* C10: a repeated call returns what the call before it returned, no step of
\* a call changes the graph or the capabilities of the classifier, and a call
\* starts with no mention of an earlier call.
C10_Stateless ==
    /\ [](prev.set /\ Over => pc = prev.pc /\ result = prev.result)
    /\ [][Classifier' = Classifier]_vars
    /\ [][pc' = "extract" => entities' = <<>>]_vars

C10_Witness ==
    /\ prev.set
    /\ Sorted
    /\ Len(result.places) >= 2
    /\ result.places[1] # entities[1].official_name

-----------------------------------------------------------------------------
(* Properties of the graph queries and of add_place *)

\* the names a query may be asked about: the places of the pools and the
\* three places load_geographic_data always adds
Names == PlacePool \cup {Pennsylvania, AlleghenyCounty}

\* C11: parentsOf and childrenOf return the empty list, without raising, for
\* a name that is not a node, and exactly the direct predecessors and direct
\* successors for a node.
C11_AdjacencyTotal ==
    \A name \in Names :
        IF HasNode(geo_graph, name)
        THEN /\ get_parents(geo_graph, name) = Returned(Predecessors(geo_graph, name))
             /\ get_children(geo_graph, name) = Returned(Successors(geo_graph, name))
        ELSE /\ get_parents(geo_graph, name) = Returned(<<>>)
             /\ get_children(geo_graph, name) = Returned(<<>>)

\* self.type_hierarchy
type_hierarchy == {"state", "county", "city", "municipality", "neighborhood"}

\* C12: add_place with a parent that is not yet a node does not fabricate the
\* parent: every node of the graph was registered by an add_place call, with
\* a type among state, county, city, municipality, neighborhood.
C12_NoFabricatedParent ==
    \A place \in Nodes :
        /\ place \in DOMAIN geo_graph.place_to_type
        /\ place \in DOMAIN geo_graph.type
        /\ geo_graph.place_to_type[place] \in type_hierarchy

\* C13: the graph contains no cycle: no place is reached from itself by
\* following parent edges one or more times.
C13_Acyclic ==
    \A place \in Nodes : place \notin ParentsRepeatedly(place, Len(geo_graph.nodes))

\* the aliases registered for a place, in lower case
LowerAliases(place) ==
    {lower(NodeAliases(geo_graph, place)[k]) :
        k \in 1..Len(NodeAliases(geo_graph, place))}

\* C14: no alias, compared case-insensitively, is registered against two
\* different canonical names, and no alias of one place equals the canonical
\* name of another place.
C14_AliasUnique ==
    \A p, q \in Nodes :
        p # q => /\ LowerAliases(p) \cap LowerAliases(q) = {}
                 /\ lower(q) \notin LowerAliases(p)

-----------------------------------------------------------------------------
(* The classifier on the documents of the scenarios: Knoxville and Oakland *)
(* are neighborhoods of Pittsburgh, min_confidence is the default          *)

SeedScenario ==
    [pittsburgh_neighborhoods |-> <<[name |-> Oakland, aliases |-> <<>>],
                                    [name |-> Knoxville, aliases |-> <<>>]>>,
     allegheny_county_municipalities |-> <<>>]

ScenarioTexts ==
    {TextTennessee, TextResidents, TextSteelers, TextGathered, TextCounty}

\* the documents a caller classifies one after the other to compare the
\* confidences of the two results
Compared == {<<TextSteelers, TextGathered>>}

\* min_confidence: float = 0.4
DefaultMinConfidence == 40

InitScenario ==
    /\ geo_graph = load_geographic_data(SeedScenario)
    /\ nlp \in {"None", "English", "en_core_web_sm"}
    /\ semantic_model \in BOOLEAN
    /\ ml_classifier \in BOOLEAN
    /\ pc = "idle"
    /\ text = <<>>
    /\ min_confidence = DefaultMinConfidence
    /\ entities = <<>>
    /\ stages = <<>>
    /\ result = EmptyResult
    /\ caps = NoCaps
    /\ prev = NoPrev
    /\ added = 0
    /\ AsideInit

\* classify_text(t) is called on the classifier right after the call on
\* another document has returned; the caller still holds the earlier result
CallAfter(t) ==
    /\ pc = "returned"
    /\ prev = NoPrev
    /\ <<text, t>> \in Compared
    /\ pc' = "extract"
    /\ text' = t
    /\ prev' = [set |-> FALSE, pc |-> pc, result |-> result]
    /\ entities' = <<>>
    /\ stages' = <<>>
    /\ result' = EmptyResult
    /\ caps' = NoCaps
    /\ UNCHANGED <<Classifier, added, Aside, min_confidence>>

NextScenario ==
    \/ \E t \in ScenarioTexts : Call(t, DefaultMinConfidence)
    \/ \E t \in ScenarioTexts : CallAfter(t)
    \/ Forget
    \/ Extract
    \/ Semantic
    \/ Scoring
    \/ Hierarchical
    \/ FilterSortReturn

SpecScenario == InitScenario /\ [][NextScenario]_vars

\* C15: with Knoxville registered once as a neighborhood of Pittsburgh and
\* the default min_confidence, Knoxville is absent from the result for
\* "University of Tennessee Knoxville" and present, with a confidence at or
\* above the minimum, for "Knoxville residents met with Pittsburgh officials".
C15_KnoxvilleScenario ==
    pc = "returned" =>
        /\ text = TextTennessee => Knoxville \notin Places
        /\ text = TextResidents =>
              /\ Knoxville \in Places
              /\ result.confidence_scores[Knoxville] >= min_confidence

\* the confidence a result gives a name: -1 when the name is absent
ScoreIn(res, name) ==
    IF name \in DOMAIN res.confidence_scores THEN res.confidence_scores[name] ELSE -1

\* C16: with Oakland a neighborhood of Pittsburgh, the confidence of Oakland
\* for "Pittsburgh Steelers played against Oakland Raiders at Heinz Field" is
\* strictly lower than for "University of Pittsburgh students in Oakland
\* neighborhood gathered", or Oakland is absent from the first result and
\* present with a confidence of at least 0.4 in the second.
C16_SportsCueLowers ==
    (pc = "returned" /\ text = TextGathered /\ prev.pc = "returned") =>
        \/ /\ ScoreIn(prev.result, Oakland) >= 0
           /\ ScoreIn(prev.result, Oakland) < ScoreIn(result, Oakland)
        \/ /\ ScoreIn(prev.result, Oakland) < 0
           /\ ScoreIn(result, Oakland) >= DefaultMinConfidence

-----------------------------------------------------------------------------
(* Properties of the stages of classify_text *)

\* the stages of classify_text, in the order of its body
StageOrder == <<"extract", "semantic", "score", "resolve", "filter">>

\* mention i has the canonical name of another mention among its parents
HasParentAmongOthers(ents, i) ==
    \E k \in 1..Len(OtherEntities(ents, ents[i])) :
        OtherEntities(ents, ents[i])[k] \in SeqToSet(ents[i].parent_entities)

Contracted(entity) ==
    LET early == IF 10 * entity.position < 3 * Len(text) THEN 10 ELSE 0
        role == IF entity.syntactic_role = "object" THEN 15
                ELSE IF entity.syntactic_role = "subject" THEN 10 ELSE 0
        context == IF \E word \in {W_in, W_at, W_near, W_from, W_residents,
                                   W_community, W_neighborhood} :
                          Contains(word, lower(entity.context))
                   THEN 20 ELSE 0
        ancestor == IF get_all_ancestors(geo_graph, entity.official_name) # {}
                    THEN 10 ELSE 0
        label == IF entity.semantic_context = "geographic" THEN 20
                 ELSE IF entity.semantic_context = "non_geographic" THEN 0 - 30
                 ELSE 0
    IN Max(0, Min(100, 50 + early + role + context + ancestor + label))

\* C18: after the scoring stage of every run, each mention's confidence is
\* the clamped sum of the base 0.5 and the bonuses of its own features,
\* whatever confidence it carried into the stage.
C18_ScoreOfRecord ==
    pc = "resolve" =>
        \A i \in 1..Len(entities) : entities[i].confidence = Contracted(entities[i])

\* C19: hierarchical resolution adds 0.15, capped at 1.0, to a mention if and
\* only if the canonical name of another mention of the document is an
\* ancestor of the mention's place, at any depth.
C19_AncestorBonus ==
    [][pc = "resolve" =>
         /\ Len(entities') = Len(entities)
         /\ \A i \in 1..Len(entities) :
               entities'[i].confidence
                   = IF \E j \in 1..Len(entities) :
                           /\ j # i
                           /\ entities[j].official_name
                                 \in get_all_ancestors(geo_graph, entities[i].official_name)
                     THEN Min(Full, entities[i].confidence + HierarchyBonus)
                     ELSE entities[i].confidence]_vars

\* C20: when the similarity capability is available and answers, semantic
\* validation labels a mention geographic, with min(1.0, c + 0.2), if its best
\* geographic similarity strictly exceeds its best non-geographic similarity,
\* and otherwise, a tie included, non_geographic, with max(0.1, c - 0.3); no
\* mention leaves the stage with confidence 0.
C20_SemanticValidation ==
    /\ [][(pc = "semantic" /\ semantic_model /\ caps'.sim.failAt = 0) =>
            /\ Len(entities') = Len(entities)
            /\ \A i \in 1..Len(entities) :
                  LET s == caps'.sim.scores[entities[i].text]
                      c == entities[i].confidence
                  IN IF s.max_geo_score > s.max_non_geo_score
                     THEN /\ entities'[i].semantic_context = "geographic"
                          /\ entities'[i].confidence = Min(100, c + 20)
                     ELSE /\ entities'[i].semantic_context = "non_geographic"
                          /\ entities'[i].confidence = Max(10, c - 30)]_vars
    /\ [](pc = "score" => \A i \in 1..Len(entities) : entities[i].confidence > 0)

C20_Witness ==
    /\ pc = "score"
    /\ semantic_model
    /\ caps.sim.failAt = 0
    /\ \E i, j \in 1..Len(entities) :
          /\ caps.sim.scores[entities[i].text].max_geo_score
                = caps.sim.scores[entities[i].text].max_non_geo_score
          /\ entities[i].semantic_context = "non_geographic"
          /\ entities[i].confidence = BasicPrior - SemanticPenalty
          /\ caps.sim.scores[entities[j].text].max_geo_score
                > caps.sim.scores[entities[j].text].max_non_geo_score
          /\ entities[j].semantic_context = "geographic"
          /\ entities[j].confidence = BasicPrior + SemanticBonus

\* C21: if the similarity capability is unavailable, or fails while the
\* stage is processing a mention, the stage is a pass-through: every mention,
\* those processed before the failure included, leaves it with the label and
\* the confidence it entered with.
C21_ValidatorPassThrough ==
    [][(pc = "semantic" /\ (~semantic_model \/ caps'.sim.failAt # 0)) =>
          entities' = entities]_vars

-----------------------------------------------------------------------------
(* The name resolver called on its own *)

\* "Dnalkao": the letters of Oakland in another order
Dnalkao == <<"D", "n", "a", "l", "k", "a", "o">>

\* the surface texts handed to _resolve_to_official_name
Queries ==
    LET forms == {Pittsburgh, Oakland, Moon, OaklandRaiders, MoonTownship, Nothing,
                  Dnalkao, <<>>}
    IN forms \cup {lower(f) : f \in forms} \cup {upper(f) : f \in forms}

\* geo_graph.add_place(place, 'neighborhood', parent, aliases) before any lookup
Register(place, parent, aliases) ==
    /\ pc = "idle"
    /\ AddPlace(place, "neighborhood", parent, aliases)

\* official_name = self._resolve_to_official_name(entity_text)
Resolve(entity_text) ==
    /\ pc = "idle"
    /\ pc' = "resolved"
    /\ text' = entity_text
    /\ resolution' = resolve_to_official_name(geo_graph, entity_text)
    /\ UNCHANGED <<geo_graph, nlp, semantic_model, ml_classifier, min_confidence,
                   entities, stages, result, caps, prev, added, is_geographic,
                   other, store, jobs>>

NextResolve ==
    \/ \E place \in PlacePool, parent \in {None, Pittsburgh}, aliases \in AliasPool :
          Register(place, parent, aliases)
    \/ \E entity_text \in Queries : Resolve(entity_text)

SpecResolve == InitGraph /\ [][NextResolve]_vars

\* the positions, in iteration order, of the nodes that satisfy Hit
Hits(Hit(_)) == {i \in 1..Len(geo_graph.nodes) : Hit(geo_graph.nodes[i])}

\* the node that comes first in iteration order among those at the indices
Earliest(indices) == geo_graph.nodes[CHOOSE i \in indices : \A j \in indices : i <= j]

\* one string contains the other, or the character sets overlap by 0.9
Similar(a, b) ==
    \/ Contains(a, b)
    \/ Contains(b, a)
    \/ 10 * Cardinality(CharSet(a) \cap CharSet(b))
           >= 9 * Cardinality(CharSet(a) \cup CharSet(b))

\* C22: the resolver tries the exact canonical name, then the exact alias,
\* then the fuzzy match, and the first hit wins; the fuzzy test is symmetric,
\* accepts containment or a Jaccard overlap of character sets of 0.9, never
\* accepts an empty string; with no hit the result is none.
C22_ResolveOrder ==
    pc = "resolved" =>
        LET q == lower(text)
            exact == Hits(LAMBDA place : lower(place) = q)
            aliased == Hits(LAMBDA place : q \in LowerAliases(place))
            fuzzy == Hits(LAMBDA place : fuzzy_match(q, lower(place)))
        IN /\ IF exact # {} THEN resolution = Earliest(exact)
              ELSE IF aliased # {} THEN resolution = Earliest(aliased)
              ELSE IF fuzzy # {} THEN resolution = Earliest(fuzzy)
              ELSE resolution = None
           /\ \A place \in Nodes :
                 /\ fuzzy_match(q, lower(place)) = fuzzy_match(lower(place), q)
                 /\ fuzzy_match(q, lower(place)) = (q # <<>> /\ Similar(q, lower(place)))

\* "Moon Township" is resolved to Oakland, whose alias it is, although Moon
\* comes first in the graph and matches it fuzzily
C22_Witness ==
    /\ pc = "resolved"
    /\ text = MoonTownship
    /\ Len(geo_graph.nodes) = 2
    /\ geo_graph.nodes[1] = Moon
    /\ fuzzy_match(lower(text), lower(Moon))
    /\ lower(text) \in LowerAliases(Oakland)
    /\ resolution = Oakland


-----------------------------------------------------------------------------
(* The plausibility filter called on its own *)

\* "The Oakland team practiced in Oakland"
\* "The Oakland team practiced in Oakland"
TextTeam == <<"T", "h", "e", " ", "O", "a", "k", "l", "a", "n", "d", " ",
    "t", "e", "a", "m", " ", "p", "r", "a", "c", "t", "i", "c", "e", "d",
    " ", "i", "n", " ", "O", "a", "k", "l", "a", "n", "d">>
\* "Oakland school board met"
\* "Oakland school board met"
TextSchool == <<"O", "a", "k", "l", "a", "n", "d", " ", "s", "c", "h", "o",
    "o", "l", " ", "b", "o", "a", "r", "d", " ", "m", "e", "t">>
\* "A Pittsburgh company moved"
\* "A Pittsburgh company moved"
TextCompany == <<"A", " ", "P", "i", "t", "t", "s", "b", "u", "r", "g", "h",
    " ", "c", "o", "m", "p", "a", "n", "y", " ", "m", "o", "v", "e", "d">>

\* the documents the filter is asked about
FilterTexts ==
    {TextTeam, TextSchool, TextCompany, TextUniversity, TextSteelers, TextResidents,
     TextNoPlace}

\* ent.text as a recognizer returns it: the document's spelling, or another case
FilterSurfaces ==
    LET forms == {Oakland, Pittsburgh, Knoxville}
    IN forms \cup {lower(f) : f \in forms} \cup {upper(f) : f \in forms}

\* the values of _analyze_syntactic_role
Roles == {"subject", "object", "modifier", "ROOT"}

InitFilter ==
    /\ geo_graph = load_geographic_data(SeedBasic)
    /\ nlp = "en_core_web_sm"
    /\ semantic_model = FALSE
    /\ ml_classifier = FALSE
    /\ pc = "idle"
    /\ text \in FilterTexts
    /\ min_confidence = DefaultMinConfidence
    /\ entities = <<>>
    /\ stages = <<>>
    /\ result = EmptyResult
    /\ caps = NoCaps
    /\ prev = NoPrev
    /\ added = 0
    /\ AsideInit

\* self._is_geographic_entity(ent.text, syntactic_role, text)
Filter(surface, syntactic_role) ==
    /\ pc = "idle"
    /\ pc' = "filtered"
    /\ is_geographic' =
          [text |-> surface, syntactic_role |-> syntactic_role,
           value |-> is_geographic_entity(surface, syntactic_role, text)]
    /\ UNCHANGED <<Classifier, text, min_confidence, entities, stages, result, caps,
                   prev, added, resolution, other, store, jobs>>

NextFilter ==
    \E surface \in FilterSurfaces, syntactic_role \in Roles :
        Filter(surface, syntactic_role)

SpecFilter == InitFilter /\ [][NextFilter]_vars

\* the document, read without regard to case, has an organizational, sports
\* or institutional cue for the name
NonGeographicCue(name, full_text) ==
    LET doc == lower(full_text)
        s == lower(name)
    IN \/ NameThenWord(doc, s, {W_team, W_steelers, W_pirates, W_penguins}, TRUE)
       \/ UniversityOf(doc, s)
       \/ NameThenWord(doc, s, {W_company, W_corporation, W_inc, W_llc}, TRUE)
       \/ NameThenWord(doc, s, {W_school, W_high_school, W_elementary}, TRUE)

\* C23: the filter rejects a surface text, in whatever letter case it was
\* returned, exactly when the document has an organizational, sports or
\* institutional cue for it, read case-insensitively; otherwise it accepts.
C23_FilterCaseInsensitive ==
    pc = "filtered" =>
        is_geographic.value = ~NonGeographicCue(is_geographic.text, text)


-----------------------------------------------------------------------------
(* The fallback scanner called on its own *)

\* the documents handed to _basic_entity_extraction
ScanTexts == Texts \cup {lower(TextRaiders), upper(TextMoon), TextSteelers}

\* return self._basic_entity_extraction(text)
Scan(full_text) ==
    /\ pc = "idle"
    /\ pc' = "scanned"
    /\ text' = full_text
    /\ entities' = basic_entity_extraction(geo_graph, full_text)
    /\ UNCHANGED <<Classifier, min_confidence, stages, result, caps, prev, added, Aside>>

NextScan ==
    \/ \E place \in PlacePool, parent \in {None, Pittsburgh}, aliases \in AliasPool :
          Register(place, parent, aliases)
    \/ \E full_text \in ScanTexts : Scan(full_text)

SpecScan == InitGraph /\ [][NextScan]_vars

\* the name occurs in the text at the offset and nowhere before it, both read
\* without regard to case
FirstOccurrence(name, full_text, offset) ==
    /\ offset \in 0..Len(full_text)
    /\ OccursAt(lower(name), lower(full_text), offset)
    /\ \A before \in 0..(offset - 1) : ~OccursAt(lower(name), lower(full_text), before)

\* C24: the fallback scanner emits one mention for a known place exactly when
\* the place's name occurs in the text without regard to case; the mention has
\* confidence 0.6, role unknown, the place as canonical name and the offset of
\* the first occurrence as position.
C24_FallbackScan ==
    pc = "scanned" =>
        /\ \A place \in Nodes :
              Contains(lower(place), lower(text))
                  <=> \E i \in 1..Len(entities) : entities[i].official_name = place
        /\ \A i, j \in 1..Len(entities) :
              entities[i].official_name = entities[j].official_name => i = j
        /\ \A i \in 1..Len(entities) :
              /\ entities[i].official_name \in Nodes
              /\ entities[i].text = entities[i].official_name
              /\ entities[i].confidence = 60
              /\ entities[i].syntactic_role = "unknown"
              /\ FirstOccurrence(entities[i].official_name, text, entities[i].position)

\* "OAKLAND" and "MOON TOWNSHIP" in an upper-case document are found as
\* Oakland and Moon, the second occurrence of no name being reported
C24_Witness ==
    /\ pc = "scanned"
    /\ text = upper(TextMoon)
    /\ Len(entities) >= 2
    /\ \E i \in 1..Len(entities) :
          entities[i].official_name = Oakland /\ entities[i].position > 0
    /\ \E place \in Nodes : ~Contains(lower(place), lower(text))


-----------------------------------------------------------------------------
(* Properties of extraction without a working recognizer *)

\* C25: whenever no working recognizer is there, the library missing or its
\* language model not loadable, an extraction step that does not raise yields
\* the mentions of the fallback scanner.
C25_FallbackWhenAbsent ==
    [][(pc = "extract" /\ nlp # "en_core_web_sm" /\ pc' # "raised") =>
          entities' = basic_entity_extraction(geo_graph, text)]_vars


-----------------------------------------------------------------------------
(* Properties of hierarchical resolution *)

\* the canonical names of the mentions, in order
OfficialNames(ents) == [i \in 1..Len(ents) |-> ents[i].official_name]

\* C26: resolve_ambiguous_reference answers with the name it was given, for a
\* name in the graph or not and whatever the context list, so hierarchical
\* resolution keeps the number, the order and every field of the mentions
\* except the confidence.
C26_ResolutionKeepsNames ==
    /\ [](pc = "resolve" =>
            \A name \in SeqToSet(OfficialNames(entities)) \cup {Nothing, Knoxville} :
               \A i \in 1..Len(entities) :
                  /\ resolve_ambiguous_reference(geo_graph, name,
                                                 OtherEntities(entities, entities[i])) = name
                  /\ resolve_ambiguous_reference(geo_graph, name, <<>>) = name)
    /\ [][pc = "resolve" =>
            /\ Len(entities') = Len(entities)
            /\ \A i \in 1..Len(entities) :
                  entities'[i] = [entities[i] EXCEPT !.confidence = entities'[i].confidence]]_vars

\* hierarchical resolution has run on a mention whose canonical name is an
\* ancestor of another mention's, and on that other mention, which got the bonus
C26_Witness ==
    /\ pc = "filter"
    /\ \E i, j \in 1..Len(entities) :
          /\ entities[i].official_name
                \in get_all_ancestors(geo_graph, entities[j].official_name)
          /\ entities[i].official_name \in SeqToSet(entities[j].parent_entities)
          /\ entities[j].confidence \in {BasicPrior + HierarchyBonus, NerPrior + HierarchyBonus}


-----------------------------------------------------------------------------
(* Two classify_text calls over one classifier, interleaved stage by stage  *)

\* the local state of a call that has not started
IdleFrame ==
    [pc |-> "idle", text |-> <<>>, min_confidence |-> DefaultMinConfidence,
     entities |-> <<>>, stages |-> <<>>, result |-> EmptyResult, caps |-> NoCaps]

\* the documents of the two calls
InterleavedTexts == {TextUniversity, TextRaiders}

\* one classifier, constructed once and reused for every story
InitInterleaved ==
    /\ geo_graph = load_geographic_data(SeedRegion)
    /\ nlp = "None"
    /\ semantic_model \in BOOLEAN
    /\ ml_classifier \in BOOLEAN
    /\ pc = "idle"
    /\ text = <<>>
    /\ min_confidence = DefaultMinConfidence
    /\ entities = <<>>
    /\ stages = <<>>
    /\ result = EmptyResult
    /\ caps = NoCaps
    /\ prev = NoPrev
    /\ added = 0
    /\ resolution = None
    /\ is_geographic = None
    /\ other = IdleFrame
    /\ store = <<>>
    /\ jobs = None

\* classifier.classify_text(text, min_confidence=0.4) on a document the other
\* call is not classifying
CallDocument(t) ==
    /\ t # other.text
    /\ Call(t, DefaultMinConfidence)

\* a switch that leaves the mention list where it is: both calls work on one list
SwitchSharingMentions ==
    /\ other.pc # "idle" \/ pc # "idle"
    /\ other' = [pc |-> pc, text |-> text, min_confidence |-> min_confidence,
                 entities |-> entities, stages |-> stages, result |-> result,
                 caps |-> caps]
    /\ pc' = other.pc
    /\ text' = other.text
    /\ min_confidence' = other.min_confidence
    /\ stages' = other.stages
    /\ result' = other.result
    /\ caps' = other.caps
    /\ UNCHANGED <<Classifier, entities, prev, added, resolution, is_geographic,
                   store, jobs>>

\* between two stages the running call is suspended and the other one runs:
\* the locals of classify_text belong to the call
Switch ==
    /\ other.pc # "idle" \/ pc # "idle"
    /\ other' = [pc |-> pc, text |-> text, min_confidence |-> min_confidence,
                 entities |-> entities, stages |-> stages, result |-> result,
                 caps |-> caps]
    /\ pc' = other.pc
    /\ text' = other.text
    /\ min_confidence' = other.min_confidence
    /\ entities' = other.entities
    /\ stages' = other.stages
    /\ result' = other.result
    /\ caps' = other.caps
    /\ UNCHANGED <<Classifier, prev, added, resolution, is_geographic, store, jobs>>

NextInterleaved ==
    \/ \E t \in InterleavedTexts : CallDocument(t)
    \/ Switch
    \/ Extract
    \/ Semantic
    \/ Scoring
    \/ Hierarchical
    \/ FilterSortReturn

SpecInterleaved == InitInterleaved /\ [][NextInterleaved]_vars

\* classify_text run from its first to its last line with nothing in between,
\* the capabilities answering as recorded
classify_text(full_text, minimum, answers) ==
    LET found == extract_named_entities(geo_graph, nlp, answers.ner, full_text)
    IN IF found.raised THEN [pc |-> "raised", result |-> EmptyResult]
       ELSE IF found.value = <<>> THEN [pc |-> "returned", result |-> EmptyResult]
       ELSE LET validated == IF semantic_model
                             THEN semantic_context_analysis(found.value, answers.sim)
                             ELSE found.value
                scored == IF ml_classifier THEN ml_confidence_scoring(validated, full_text)
                          ELSE Returned(validated)
            IN IF scored.raised THEN [pc |-> "raised", result |-> EmptyResult]
               ELSE [pc |-> "returned",
                     result |-> FilterSortExtract(
                                    hierarchical_resolution(geo_graph, scored.value),
                                    minimum)]

\* the call has ended as the same call ends when it runs alone
AsAlone(frame) ==
    frame.pc \in {"returned", "raised"} =>
        \E alone \in {classify_text(frame.text, frame.min_confidence, frame.caps)} :
            /\ frame.pc = alone.pc
            /\ frame.result = alone.result

\* C27: two classify_text calls on different documents, interleaved stage by
\* stage over one classifier without a lock, each end as the same call ends
\* when it runs alone, and no step of either changes the classifier.
C27_InterleavedAsAlone ==
    /\ [](/\ AsAlone([pc |-> pc, text |-> text, min_confidence |-> min_confidence,
                      result |-> result, caps |-> caps])
          /\ AsAlone(other))
    /\ [][Classifier' = Classifier]_vars

\* one call has returned places while the other, on another document, is
\* suspended between two stages with its own mentions
C27_Witness ==
    /\ pc = "returned"
    /\ result.places # <<>>
    /\ other.pc \in {"semantic", "score", "resolve", "filter"}
    /\ other.text # text
    /\ other.entities # <<>>
    /\ OfficialNames(other.entities) # OfficialNames(entities)


-----------------------------------------------------------------------------
(* The pipeline with neither a recognizer nor a similarity capability *)

\* the known places whose name occurs in the text, read without regard to case
Named == {place \in Nodes : Contains(lower(place), lower(text))}

-----------------------------------------------------------------------------
(* The story store: stories.json, read and overwritten whole by each merge  *)

\* the most rows of a results file
MaxRows == 3

\* the values of the column Story of stories_classified_filled.csv
Urls == {"a", "b"}

\* the rows of a results file, as their URLs in order
ResultFiles == UNION {[1..n -> Urls] : n \in 1..MaxRows}

\* upload_excel serves a request; sitemap_importer runs in the subprocess
\* that import_sitemap starts in a background thread
JobNames == {"upload_excel", "sitemap_importer"}

NoJob == [pc |-> "idle", rows |-> <<>>, existing_stories |-> <<>>]

\* {story.get('url', '') for story in existing_stories}
UrlsOf(stories) == {stories[k].url : k \in 1..Len(stories)}

\* a loop that does not remember the URLs it has added
RECURSIVE MergeRowsForgetting(_, _, _, _, _)
MergeRowsForgetting(existing_stories, existing_urls, new_stories, rows, i) ==
    IF i > Len(rows) THEN new_stories
    ELSE IF rows[i] \in existing_urls
         THEN MergeRowsForgetting(existing_stories, existing_urls, new_stories, rows, i + 1)
         ELSE MergeRowsForgetting(
                  existing_stories, existing_urls,
                  Append(new_stories,
                         [id |-> Len(existing_stories) + Len(new_stories) + 1,
                          url |-> rows[i]]),
                  rows, i + 1)

\* the loop over df.iterrows(): a row whose URL is in existing_urls is a
\* duplicate; any other becomes a story and its URL joins existing_urls
RECURSIVE MergeRows(_, _, _, _, _)
MergeRows(existing_stories, existing_urls, new_stories, rows, i) ==
    IF i > Len(rows) THEN new_stories
    ELSE IF rows[i] \in existing_urls
         THEN MergeRows(existing_stories, existing_urls, new_stories, rows, i + 1)
         ELSE MergeRows(
                  existing_stories, existing_urls \cup {rows[i]},
                  Append(new_stories,
                         [id |-> Len(existing_stories) + Len(new_stories) + 1,
                          url |-> rows[i]]),
                  rows, i + 1)

\* all_stories = existing_stories + new_stories
all_stories(existing_stories, rows) ==
    existing_stories \o MergeRows(existing_stories, UrlsOf(existing_stories), <<>>, rows, 1)

InitStore ==
    /\ geo_graph = EmptyGraph
    /\ nlp = "None"
    /\ semantic_model = FALSE
    /\ ml_classifier = FALSE
    /\ pc = "idle"
    /\ text = <<>>
    /\ min_confidence = DefaultMinConfidence
    /\ entities = <<>>
    /\ stages = <<>>
    /\ result = EmptyResult
    /\ caps = NoCaps
    /\ prev = NoPrev
    /\ added = 0
    /\ resolution = None
    /\ is_geographic = None
    /\ other = None
    /\ store \in {<<>>, <<[id |-> 1, url |-> "a"]>>}
    /\ jobs = [job \in JobNames |-> NoJob]

\* df = pd.read_csv(result_file); existing_stories = load_existing_stories()
Load(job, rows) ==
    /\ jobs[job].pc = "idle"
    /\ jobs' = [jobs EXCEPT ![job] =
                   [pc |-> "loaded", rows |-> rows, existing_stories |-> store]]
    /\ UNCHANGED <<Classifier, pc, text, min_confidence, entities, stages, result, caps,
                   prev, added, resolution, is_geographic, other, store>>

\* save_stories(all_stories, filters): the file is written anew
Save(job) ==
    /\ jobs[job].pc = "loaded"
    /\ store' = all_stories(jobs[job].existing_stories, jobs[job].rows)
    /\ jobs' = [jobs EXCEPT ![job] = NoJob]
    /\ UNCHANGED <<Classifier, pc, text, min_confidence, entities, stages, result, caps,
                   prev, added, resolution, is_geographic, other>>

NextStore ==
    \/ \E job \in JobNames, rows \in ResultFiles : Load(job, rows)
    \/ \E job \in JobNames : Save(job)

SpecStore == InitStore /\ [][NextStore]_vars

\* no two stories of the list share a URL
UniqueUrls(stories) ==
    \A k, m \in 1..Len(stories) : stories[k].url = stories[m].url => k = m

\* C29: a merge keeps the URLs of the store unique: it keeps the stories it
\* loaded, adds no story whose URL was among them or occurs earlier in the
\* file, and merging the same file into its own result adds nothing; what a
\* merge saves is that result.
C29_MergeKeepsUrlsUnique ==
    /\ [](\A job \in JobNames :
            jobs[job].pc = "loaded" =>
               \E after \in {all_stories(jobs[job].existing_stories, jobs[job].rows)} :
                  LET before == jobs[job].existing_stories
                  IN /\ UniqueUrls(before) => UniqueUrls(after)
                     /\ SubSeq(after, 1, Len(before)) = before
                     /\ \A k \in (Len(before) + 1)..Len(after) :
                           after[k].url \notin UrlsOf(before)
                     /\ UrlsOf(after) = UrlsOf(before) \cup SeqToSet(jobs[job].rows)
                     /\ all_stories(after, jobs[job].rows) = after)
    /\ [][\A job \in JobNames :
            (jobs[job].pc = "loaded" /\ jobs'[job].pc = "idle") =>
                store' = all_stories(jobs[job].existing_stories, jobs[job].rows)]_vars
    /\ [] UniqueUrls(store)

\* a file that names one new URL twice and one stored URL is being merged
\* into the store as it is now
C29_Witness ==
    \E job \in JobNames :
        /\ jobs[job].pc = "loaded"
        /\ jobs[job].existing_stories = store
        /\ store # <<>>
        /\ \E k \in 1..Len(jobs[job].rows) : jobs[job].rows[k] \in UrlsOf(store)
        /\ \E k, m \in 1..Len(jobs[job].rows) :
              /\ k # m
              /\ jobs[job].rows[k] = jobs[job].rows[m]
              /\ jobs[job].rows[k] \notin UrlsOf(store)

\* C30: the store only grows: every story in stories.json is still there
\* after every later save, also when an upload and the background import
\* interleave; and no two stored stories carry the same id.
C30_StoreOnlyGrows ==
    /\ [][\A k \in 1..Len(store) : \E m \in 1..Len(store') : store'[m] = store[k]]_vars
    /\ [](\A k, m \in 1..Len(store) : store[k].id = store[m].id => k = m)

====
